---- MODULE Spec2Model ----
(***************************************************************************)
(* A model of build.py of the pleroma-wiki static-site generator: the      *)
(* title linkifier (linkify), the construction of the title registry and   *)
(* the grouping of entries under categories (build).                       *)
(*                                                                         *)
(* A Python string is a sequence of one-character strings; positions are   *)
(* 1-based here, so Python's text[i:j] is SubSeq(text, i+1, j).            *)
(***************************************************************************)
EXTENDS Naturals, Sequences, FiniteSets

VARIABLES
    titles,            \* the titles of the entries read from entries.json
    title_to_url,      \* build: the title registry
    pc,                \* where the build stands
    text,              \* linkify: the argument text
    keys,              \* linkify: the titles, longest first
    spans,             \* linkify: m.start() and m.end() of the matches iterated
    out,               \* linkify: the list of fragments
    html,              \* linkify: the string returned
    ctext,             \* interleaved calls: the argument text of each call
    cpc,               \* interleaved calls: where each call stands
    frames,            \* interleaved calls: the local variables of each call
    rets,              \* interleaved calls: the string each call returned
    overlapped,        \* interleaved calls: a call began while another was in its loop
    entries,           \* build: the entries, each a title and a categories field
    cat_to_titles,     \* build: the titles grouped under each category
    categories_sorted, \* build: the categories in display order
    cat_to_url,        \* build: the URL of each category page
    page_cat           \* build: the category link written on each entry page

linkVars == <<text, keys, spans, out, html>>

parVars == <<ctext, cpc, frames, rets, overlapped>>

catVars == <<entries, cat_to_titles, categories_sorted, cat_to_url, page_cat>>

vars == <<titles, title_to_url, pc, linkVars, parVars, catVars>>

(* ------------------------------ bounds --------------------------------- *)

MaxTitles == 2

MaxTitleLen == 3

MaxTextLen == 4

\* interleaved calls: the number of calls and the longest argument text
MaxCalls == 2

MaxCallTextLen == 1

\* category grouping: the number of entries and the longest categories list
MaxEntries == 2

MaxCats == 2

\* The characters texts and titles are drawn from: a plain letter and a
\* character that html.escape rewrites and slugify removes.
Chars == {"a", "<"}

StringsUpTo(n) == UNION {[1..k -> Chars] : k \in 0..n}

\* the subsets of S of at most n elements
SubsetsUpTo(S, n) == UNION {{{f[i] : i \in 1..k} : f \in [1..k -> S]} : k \in 0..n}

(* --------------------------- string helpers ---------------------------- *)

RECURSIVE Join(_)
\* "".join(parts)
Join(parts) == IF parts = <<>> THEN <<>> ELSE Head(parts) \o Join(Tail(parts))

\* text[i:j] for 0 <= i <= j <= len(text), with i, j Python indices
Slice(s, i, j) == SubSeq(s, i + 1, j)

\* html.escape(c) of one character, quote=True
escapeChar(c) ==
    CASE c = "&"  -> <<"&", "a", "m", "p", ";">>
      [] c = "<"  -> <<"&", "l", "t", ";">>
      [] c = ">"  -> <<"&", "g", "t", ";">>
      [] c = "\"" -> <<"&", "q", "u", "o", "t", ";">>
      [] c = "'"  -> <<"&", "#", "x", "2", "7", ";">>
      [] OTHER    -> <<c>>

RECURSIVE escape(_)
\* html.escape(s)
escape(s) == IF s = <<>> THEN <<>> ELSE escapeChar(Head(s)) \o escape(Tail(s))

Whitespace == {" ", "\t", "\n", "\r"}

Dangerous == {"/", "\\", "?", "#", "%", ":", "|", "\"", "<", ">", "."}

RECURSIVE lstrip(_)
lstrip(s) == IF s # <<>> /\ Head(s) \in Whitespace THEN lstrip(Tail(s)) ELSE s

RECURSIVE rstrip(_)
rstrip(s) ==
    IF s # <<>> /\ s[Len(s)] \in Whitespace THEN rstrip(SubSeq(s, 1, Len(s) - 1)) ELSE s

\* s.strip()
strip(s) == rstrip(lstrip(s))

\* re.sub(r"[\/\\\?\#\%\:\|\"<>\.]", "", s)
RemoveDangerous(s) == SelectSeq(s, LAMBDA c : c \notin Dangerous)

RECURSIVE DashSpaces(_)
\* re.sub(r"\s+", "-", s): every maximal run of whitespace becomes one "-"
DashSpaces(s) ==
    IF s = <<>> THEN <<>>
    ELSE IF Head(s) \in Whitespace THEN <<"-">> \o DashSpaces(lstrip(s))
    ELSE <<Head(s)>> \o DashSpaces(Tail(s))

slugify(title) == DashSpaces(RemoveDangerous(strip(title)))

PagesPrefix == <<"/", "p", "a", "g", "e", "s", "/">>

\* title_to_slug and title_to_url of build, over the set of entry titles
TitleToUrl(ts) == [t \in ts |-> PagesPrefix \o slugify(t) \o <<"/">>]

(* ------------------------------ linkify -------------------------------- *)

\* a longest element of the set S of strings
Longest(S) == CHOOSE k \in S : \A j \in S : Len(j) <= Len(k)

\* a shortest element of the set S of strings
Shortest(S) == CHOOSE k \in S : \A j \in S : Len(k) <= Len(j)

RECURSIVE SortedByLenAsc(_)
\* sorted(S, key=len), the reverse=True forgotten
SortedByLenAsc(S) ==
    IF S = {} THEN <<>> ELSE <<Shortest(S)>> \o SortedByLenAsc(S \ {Shortest(S)})

RECURSIVE SortedByLen(_)
\* sorted(S, key=len, reverse=True).  Titles of one length keep the order
\* of the dict in Python; two different titles of one length never match
\* at the same position, so their order decides nothing.
SortedByLen(S) ==
    IF S = {} THEN <<>> ELSE <<Longest(S)>> \o SortedByLen(S \ {Longest(S)})

\* keys = sorted(title_to_url.keys(), key=len, reverse=True)
SortedKeys(reg) == SortedByLen(DOMAIN reg)

\* the literal k matches in s at Python position q
MatchesAt(s, q, k) == q + Len(k) <= Len(s) /\ Slice(s, q, q + Len(k)) = k

\* the alternation taking the last alternative that matches, not the first
AltAtLast(s, q, ks, noEmpty) ==
    LET ok == {i \in 1..Len(ks) :
                 MatchesAt(s, q, ks[i]) /\ (noEmpty => Len(ks[i]) > 0)}
    IN IF ok = {} THEN 0 ELSE CHOOSE i \in ok : \A j \in ok : i >= j

\* The alternation k1|k2|... tried at position q: the index of the first
\* alternative that matches, 0 when none does.  With noEmpty an empty match
\* is refused (the scanner's must_advance after an empty match).
AltAt(s, q, ks, noEmpty) ==
    LET ok == {i \in 1..Len(ks) :
                 MatchesAt(s, q, ks[i]) /\ (noEmpty => Len(ks[i]) > 0)}
    IN IF ok = {} THEN 0 ELSE CHOOSE i \in ok : \A j \in ok : i <= j

\* no match
NoMatch == [start |-> 0, end |-> 0, found |-> FALSE]

\* pattern.match in place of the search: a match at pos itself or none
SearchAnchored(s, pos, must_advance, ks) ==
    IF pos <= Len(s) /\ AltAt(s, pos, ks, must_advance) # 0
    THEN [start |-> pos, end |-> pos + Len(ks[AltAt(s, pos, ks, must_advance)]),
          found |-> TRUE]
    ELSE NoMatch

\* pattern.search from position pos on: the leftmost position where an
\* alternative matches, with the first alternative that matches there
Search(s, pos, must_advance, ks) ==
    LET hits == {q \in pos..Len(s) : AltAt(s, q, ks, must_advance /\ q = pos) # 0}
    IN IF hits = {} THEN NoMatch
       ELSE LET q == CHOOSE q \in hits : \A r \in hits : q <= r
                k == ks[AltAt(s, q, ks, must_advance /\ q = pos)]
            IN [start |-> q, end |-> q + Len(k), found |-> TRUE]

RECURSIVE FindIterOverlapping(_, _, _, _)
\* overlapping matches: the scan resumes one character after the start of
\* a match, inside the text just matched
FindIterOverlapping(s, pos, must_advance, ks) ==
    LET m == Search(s, pos, must_advance, ks)
    IN IF ~m.found THEN <<>>
       ELSE <<[start |-> m.start, end |-> m.end]>>
            \o FindIterOverlapping(s, m.start + 1, FALSE, ks)

RECURSIVE FindIter(_, _, _, _)
\* pattern.finditer(text): the matches left to right.  After a match the
\* scan resumes at its end; after an empty match the next match may not be
\* empty at that same position.
FindIter(s, pos, must_advance, ks) ==
    LET m == Search(s, pos, must_advance, ks)
    IN IF ~m.found THEN <<>>
       ELSE <<[start |-> m.start, end |-> m.end]>>
            \o FindIter(s, m.end, m.end = m.start, ks)

Matches(s, ks) == FindIter(s, 0, FALSE, ks)

AnchorOpen(url) ==
    <<"<", "a", " ", "h", "r", "e", "f", "=", "\"">> \o url \o <<"\"", ">">>

AnchorClose == <<"<", "/", "a", ">">>

\* the fragment appended for the match k: lines 38-43
Replacement(k, reg) ==
    LET url == IF k \in DOMAIN reg THEN reg[k] ELSE <<>>
    IN IF url # <<>> THEN AnchorOpen(url) \o escape(k) \o AnchorClose
       ELSE escape(k)

\* the loop body with last = m.start() in place of last = m.end()
LoopBodyLastAtStart(s, reg, o, last, m) ==
    [out  |-> o \o <<escape(Slice(s, last, m.start)),
                     Replacement(Slice(s, m.start, m.end), reg)>>,
     last |-> m.start]

\* one pass of the loop body for the match m: lines 37-44
LoopBody(s, reg, o, last, m) ==
    [out  |-> o \o <<escape(Slice(s, last, m.start)),
                     Replacement(Slice(s, m.start, m.end), reg)>>,
     last |-> m.end]

RECURSIVE Loop(_, _, _, _, _)
Loop(s, reg, ms, o, last) ==
    IF ms = <<>> THEN o \o <<escape(Slice(s, last, Len(s)))>>
    ELSE LET r == LoopBody(s, reg, o, last, Head(ms))
         IN Loop(s, reg, Tail(ms), r.out, r.last)

\* the list out when the loop has ended and line 46 has run
Fragments(s, reg) == Loop(s, reg, Matches(s, SortedKeys(reg)), <<>>, 0)

\* linkify returning the text as it is when the registry is empty
linkifyRawWhenEmpty(s, reg) ==
    IF SortedKeys(reg) = <<>> THEN s ELSE Join(Fragments(s, reg))

\* linkify(text, title_to_url): the string returned
linkify(s, reg) ==
    IF SortedKeys(reg) = <<>> THEN escape(s) ELSE Join(Fragments(s, reg))

(* ---------------------------- specification ---------------------------- *)

NoCalls ==
    /\ ctext = <<>>
    /\ cpc = <<>>
    /\ frames = <<>>
    /\ rets = <<>>
    /\ overlapped = FALSE

NoEntries ==
    /\ entries = <<>>
    /\ cat_to_titles = <<>>
    /\ categories_sorted = <<>>
    /\ cat_to_url = <<>>
    /\ page_cat = <<>>

Init ==
    /\ titles \in SubsetsUpTo(StringsUpTo(MaxTitleLen), MaxTitles)
    /\ text \in StringsUpTo(MaxTextLen)
    /\ title_to_url = <<>>
    /\ keys = <<>>
    /\ spans = <<>>
    /\ out = <<>>
    /\ html = <<>>
    /\ pc = "load"
    /\ NoCalls
    /\ NoEntries

\* build, lines 61-62
BuildRegistry ==
    /\ pc = "load"
    /\ title_to_url' = TitleToUrl(titles)
    /\ pc' = "registry"
    /\ UNCHANGED <<titles, linkVars, parVars, catVars>>

\* one call linkify(text, title_to_url), lines 28-47
CallLinkify ==
    /\ pc = "registry"
    /\ keys' = SortedKeys(title_to_url)
    /\ spans' = IF keys' = <<>> THEN <<>> ELSE Matches(text, keys')
    /\ out' = IF keys' = <<>> THEN <<>> ELSE Loop(text, title_to_url, spans', <<>>, 0)
    /\ html' = linkify(text, title_to_url)
    /\ pc' = "linked"
    /\ UNCHANGED <<titles, text, title_to_url, parVars, catVars>>

Next == BuildRegistry \/ CallLinkify

Spec == Init /\ [][Next]_vars

(* ------------- several linkify calls sharing one registry -------------- *)

\* The titles of the shared registry.
CallTitles == {<<>>, <<"a">>}

Calls == 1..MaxCalls

\* all calls write one frame, as they would with out and last kept in
\* module-level variables
FrameShared(c) == 1

\* The frame that holds the locals of call c: each call of a Python function
\* gets a frame of its own (keys, out, last and the iterator of finditer).
Frame(c) == c

NewFrame == [keys |-> <<>>, out |-> <<>>, last |-> 0, pos |-> 0, must_advance |-> FALSE]

InitCalls ==
    /\ titles \in SUBSET CallTitles
    /\ title_to_url = TitleToUrl(titles)
    /\ pc = "registry"
    /\ ctext \in [Calls -> StringsUpTo(MaxCallTextLen)]
    /\ cpc = [c \in Calls |-> "call"]
    /\ frames = [f \in Calls |-> NewFrame]
    /\ rets = [c \in Calls |-> <<>>]
    /\ overlapped = FALSE
    /\ text = <<>> /\ keys = <<>> /\ spans = <<>> /\ out = <<>> /\ html = <<>>
    /\ NoEntries

\* lines 28-30: the registry is empty, the call returns escape(text)
EnterEmpty(c) ==
    /\ cpc[c] = "call"
    /\ SortedKeys(title_to_url) = <<>>
    /\ rets' = [rets EXCEPT ![c] = escape(ctext[c])]
    /\ cpc' = [cpc EXCEPT ![c] = "done"]
    /\ UNCHANGED <<titles, title_to_url, pc, linkVars, ctext, frames, overlapped, catVars>>

\* lines 28-36: keys, pattern, out = [], last = 0 and the iterator
Enter(c) ==
    /\ cpc[c] = "call"
    /\ SortedKeys(title_to_url) # <<>>
    /\ frames' = [frames EXCEPT ![Frame(c)] =
                      [NewFrame EXCEPT !.keys = SortedKeys(title_to_url)]]
    /\ cpc' = [cpc EXCEPT ![c] = "loop"]
    /\ overlapped' = (overlapped \/ \E d \in Calls : d # c /\ cpc[d] = "loop")
    /\ UNCHANGED <<titles, title_to_url, pc, linkVars, ctext, rets, catVars>>

\* lines 36-44: the iterator yields the next match and the body runs once
Iterate(c) ==
    /\ cpc[c] = "loop"
    /\ LET f == frames[Frame(c)]
           m == Search(ctext[c], f.pos, f.must_advance, f.keys)
           r == LoopBody(ctext[c], title_to_url, f.out, f.last, m)
       IN /\ m.found
          /\ frames' = [frames EXCEPT ![Frame(c)] =
                            [f EXCEPT !.out = r.out, !.last = r.last,
                                      !.pos = m.end,
                                      !.must_advance = (m.end = m.start)]]
    /\ UNCHANGED <<titles, title_to_url, pc, linkVars, ctext, cpc, rets, overlapped, catVars>>

\* lines 46-47: the iterator is exhausted, the call returns
Return(c) ==
    /\ cpc[c] = "loop"
    /\ LET f == frames[Frame(c)]
           m == Search(ctext[c], f.pos, f.must_advance, f.keys)
       IN /\ ~m.found
          /\ rets' = [rets EXCEPT ![c] =
                          Join(f.out \o <<escape(Slice(ctext[c], f.last, Len(ctext[c])))>>)]
    /\ cpc' = [cpc EXCEPT ![c] = "done"]
    /\ UNCHANGED <<titles, title_to_url, pc, linkVars, ctext, frames, overlapped, catVars>>

NextCalls == \E c \in Calls : EnterEmpty(c) \/ Enter(c) \/ Iterate(c) \/ Return(c)

SpecCalls == InitCalls /\ [][NextCalls]_vars

\* C9: under every interleaving of the calls, the registry and the argument
\* texts stay as they were, and each call that has returned has returned
\* what linkify returns for its text and the registry when run alone.
C9_CallsIndependent ==
    /\ [](\A c \in DOMAIN cpc :
              cpc[c] = "done" => rets[c] = linkify(ctext[c], title_to_url))
    /\ [][title_to_url' = title_to_url /\ ctext' = ctext]_vars

\* two calls on different texts have both returned, one of them a link, and
\* one of them began while the other was in the middle of its loop
C9_Witness ==
    /\ <<>> \notin DOMAIN title_to_url
    /\ overlapped
    /\ \E c \in DOMAIN cpc : \E d \in DOMAIN cpc :
           /\ c # d
           /\ ctext[c] # ctext[d]
           /\ cpc[c] = "done" /\ rets[c] # <<>> /\ rets[c][1] = "<"
           /\ cpc[d] = "done" /\ rets[d] # <<>>

(* --------------------- categories of the entries ----------------------- *)

\* A JSON value: null, a string, a number or a list of values.
JNull == [t |-> "null", s |-> <<>>, n |-> 0, l |-> <<>>]

JStr(x) == [t |-> "str", s |-> x, n |-> 0, l |-> <<>>]

JNum(x) == [t |-> "num", s |-> <<>>, n |-> x, l |-> <<>>]

JList(x) == [t |-> "list", s |-> <<>>, n |-> 0, l |-> x]

\* bool(v)
Truthy(v) ==
    CASE v.t = "null" -> FALSE
      [] v.t = "str"  -> v.s # <<>>
      [] v.t = "num"  -> v.n # 0
      [] v.t = "list" -> v.l # <<>>

\* str(v) of a string, of None and of the numbers the model draws
PyStr(v) ==
    CASE v.t = "str"  -> v.s
      [] v.t = "null" -> <<"N", "o", "n", "e">>
      [] v.t = "num"  -> IF v.n = 0 THEN <<"0">> ELSE <<"7">>

\* "未分類"
DefaultCategory == <<"U+672A", "U+5206", "U+985E">>

\* "人物"
People == <<"U+4EBA", "U+7269">>

CATEGORY_ORDER ==
    << <<"U+5275", "U+4F5C", "U+80CC", "U+666F">>,
       People,
       <<"U+5718", "U+9AD4">>,
       <<"U+7CBE", "U+9748", "U+7CFB", "U+7D71">>,
       <<"U+5236", "U+5EA6", "U+8207", "U+821E", "U+53F0">>,
       <<"U+4EE3", "U+5E63", "U+7D93", "U+6FDF">>,
       <<"U+5730", "U+9EDE">>,
       <<"U+5B97", "U+6559", "U+8207", "U+6559", "U+6D3E">>,
       <<"U+6642", "U+9593">>,
       <<"U+6982", "U+5FF5">>,
       <<"U+79D1", "U+6280">>,
       <<"U+7D44", "U+7E54", "U+8207", "U+52E2", "U+529B">>,
       <<"U+8077", "U+696D", "U+8207", "U+89D2", "U+8272">>,
       <<"U+80FD", "U+529B", "U+8207", "U+6280", "U+8853">>,
       <<"U+4E8B", "U+4EF6">> >>

Unranked == 999

\* order.get(c, 999), with order = {name: i for i, name in enumerate(CATEGORY_ORDER)}
OrderOf(c) ==
    LET at == {i \in 1..Len(CATEGORY_ORDER) : CATEGORY_ORDER[i] = c}
    IN IF at = {} THEN Unranked ELSE (CHOOSE i \in at : TRUE) - 1

\* ord(c) of the characters the categories and titles of the model hold
CodePoint(c) ==
    CASE c = " " -> 32
      [] c = "0" -> 48
      [] c = "7" -> 55
      [] c = "N" -> 78
      [] c = "X" -> 88
      [] c = "a" -> 97
      [] c = "b" -> 98
      [] c = "e" -> 101
      [] c = "n" -> 110
      [] c = "o" -> 111
      [] c = "U+4EBA" -> 20154
      [] c = "U+5206" -> 20998
      [] c = "U+672A" -> 26410
      [] c = "U+7269" -> 29289
      [] c = "U+985E" -> 39006

RECURSIVE StrLess(_, _)
\* x < y for Python strings
StrLess(x, y) ==
    IF y = <<>> THEN FALSE
    ELSE IF x = <<>> THEN TRUE
    ELSE IF Head(x) = Head(y) THEN StrLess(Tail(x), Tail(y))
    ELSE CodePoint(Head(x)) < CodePoint(Head(y))

RECURSIVE Insert(_, _)
Insert(sorted, x) ==
    IF sorted = <<>> THEN <<x>>
    ELSE IF StrLess(x, Head(sorted)) THEN <<x>> \o sorted
    ELSE <<Head(sorted)>> \o Insert(Tail(sorted), x)

RECURSIVE SortStrings(_)
\* sorted(xs)
SortStrings(xs) == IF xs = <<>> THEN <<>> ELSE Insert(SortStrings(Tail(xs)), Head(xs))

\* (order.get(c, 999), c) < (order.get(d, 999), d)
CategoryBefore(c, d) ==
    OrderOf(c) < OrderOf(d) \/ (OrderOf(c) = OrderOf(d) /\ StrLess(c, d))

RECURSIVE SortCategories(_)
\* sorted(cat_to_titles.keys(), key=lambda c: (order.get(c, 999), c))
SortCategories(S) ==
    IF S = {} THEN <<>>
    ELSE LET c == CHOOSE c \in S : \A d \in S \ {c} : CategoryBefore(c, d)
         IN <<c>> \o SortCategories(S \ {c})

Range(f) == {f[i] : i \in DOMAIN f}

RECURSIVE CleanCats(_)
\* [str(c).strip() for c in cats if c and str(c).strip()]
CleanCats(cats) ==
    IF cats = <<>> THEN <<>>
    ELSE LET c == Head(cats)
         IN IF Truthy(c) /\ strip(PyStr(c)) # <<>>
            THEN <<strip(PyStr(c))>> \o CleanCats(Tail(cats))
            ELSE CleanCats(Tail(cats))

\* the categories build groups the entry e under: lines 67-72
CatsOf(e) ==
    LET cats  == IF Truthy(e.categories) THEN e.categories ELSE JStr(DefaultCategory)
        list  == IF cats.t = "str" THEN <<cats>> ELSE cats.l
        clean == CleanCats(list)
    IN IF clean = <<>> THEN <<DefaultCategory>> ELSE clean

RECURSIVE TitlesUnder(_, _)
\* the titles appended to cat_to_titles[c] while the entries es are read:
\* lines 66-74
TitlesUnder(c, es) ==
    IF es = <<>> THEN <<>>
    ELSE LET hits == SelectSeq(CatsOf(Head(es)), LAMBDA x : x = c)
         IN [i \in 1..Len(hits) |-> Head(es).title] \o TitlesUnder(c, Tail(es))

CategoriesPrefix == <<"/", "c", "a", "t", "e", "g", "o", "r", "i", "e", "s", "/">>

\* the category an entry page shows and the URL it links: lines 177-181
CategoryLink(e, urls) ==
    LET cat0 == IF Truthy(e.categories) THEN e.categories ELSE JStr(DefaultCategory)
        cat1 == IF cat0.t = "list" THEN cat0.l[1] ELSE cat0
        cat  == IF strip(PyStr(cat1)) # <<>> THEN strip(PyStr(cat1)) ELSE DefaultCategory
    IN [cat  |-> cat,
        href |-> IF cat \in DOMAIN urls THEN urls[cat] ELSE CategoriesPrefix]

\* The values a categories list holds: strings (empty, blank, plain, a
\* ranked category, the default category) and values that are no strings.
CatElems ==
    {JStr(<<>>), JStr(<<" ">>), JStr(<<"X">>), JStr(People), JStr(DefaultCategory),
     JNull, JNum(0), JNum(7)}

\* The values of the categories field: absent, a string, or a list.
CatFields ==
    {JNull}
    \cup {v \in CatElems : v.t = "str"}
    \cup {JList(l) : l \in UNION {[1..k -> CatElems] : k \in 0..MaxCats}}

\* The title of the i-th entry; the titles of the entries differ.
EntryTitle(i) == (IF i % 2 = 1 THEN <<"b">> ELSE <<"a">>) \o [j \in 1..(i - 1) |-> "a"]

InitCats ==
    /\ \E k \in 1..MaxEntries :
           entries \in {[i \in 1..k |-> [title |-> EntryTitle(i), categories |-> f[i]]] :
                           f \in [1..k -> CatFields]}
    /\ titles = {entries[i].title : i \in DOMAIN entries}
    /\ title_to_url = TitleToUrl(titles)
    /\ pc = "registry"
    /\ cat_to_titles = <<>>
    /\ categories_sorted = <<>>
    /\ cat_to_url = <<>>
    /\ page_cat = <<>>
    /\ text = <<>> /\ keys = <<>> /\ spans = <<>> /\ out = <<>> /\ html = <<>>
    /\ NoCalls

\* build, lines 65-74 and 96-100
GroupCategories ==
    /\ pc = "registry"
    /\ LET cats == UNION {Range(CatsOf(entries[i])) : i \in DOMAIN entries}
       IN /\ cat_to_titles' = [c \in cats |-> SortStrings(TitlesUnder(c, entries))]
          /\ categories_sorted' = SortCategories(cats)
          /\ cat_to_url' = [c \in cats |-> CategoriesPrefix \o slugify(c) \o <<"/">>]
    /\ pc' = "grouped"
    /\ UNCHANGED <<titles, title_to_url, linkVars, parVars, entries, page_cat>>

\* build, lines 177-182 of the entry page loop, for the next entry
RenderEntryPage ==
    /\ pc = "grouped"
    /\ Len(page_cat) < Len(entries)
    /\ page_cat' = Append(page_cat, CategoryLink(entries[Len(page_cat) + 1], cat_to_url))
    /\ UNCHANGED <<titles, title_to_url, pc, linkVars, parVars, entries,
                   cat_to_titles, categories_sorted, cat_to_url>>

NextCats == GroupCategories \/ RenderEntryPage

SpecCats == InitCats /\ [][NextCats]_vars

\* C10 (as claimed): the category an entry page links is a category build
\* grouped the entry under: it has a category page, the link is that page's
\* URL and not the fallback, and the page lists the entry.
C10_ShownCategoryIsGrouped ==
    \A i \in DOMAIN page_cat :
        LET shown == page_cat[i] IN
        /\ shown.cat \in Range(CatsOf(entries[i]))
        /\ shown.cat \in DOMAIN cat_to_titles
        /\ shown.cat \in Range(categories_sorted)
        /\ shown.href = cat_to_url[shown.cat]
        /\ shown.href # CategoriesPrefix
        /\ entries[i].title \in Range(cat_to_titles[shown.cat])

(* ------------------- properties of one linkify call -------------------- *)

Linked == pc = "linked"

Positions == 0..Len(text)

\* the title k occurs in the text at position q
Occurs(k, q) == MatchesAt(text, q, k)

OccAt(q) == {k \in DOMAIN title_to_url : Occurs(k, q)}

Occ == {o \in Positions \X DOMAIN title_to_url : Occurs(o[2], o[1])}

Anchor(k) == AnchorOpen(title_to_url[k]) \o escape(k) \o AnchorClose

\* the i-th match covers the occurrence of k at q, and the fragment emitted
\* for it is the anchor around k pointing to k's URL
LinkedAt(q, k) ==
    \E i \in DOMAIN spans :
        /\ spans[i].start = q
        /\ spans[i].end = q + Len(k)
        /\ 2 * i <= Len(out)
        /\ out[2 * i] = Anchor(k)

\* the scan stands at q: q is not strictly inside a span already consumed
ScanAt(q) == \A i \in DOMAIN spans : ~(spans[i].start < q /\ q < spans[i].end)

\* the occurrences o1 and o2 share a character of the text
Share(o1, o2) ==
    \E p \in Positions :
        /\ o1[1] <= p /\ p < o1[1] + Len(o1[2])
        /\ o2[1] <= p /\ p < o2[1] + Len(o2[2])

Conflict(o1, o2) == o1 # o2 /\ (o1[1] = o2[1] \/ Share(o1, o2))

IsProperPrefix(s, l) == Len(s) < Len(l) /\ SubSeq(l, 1, Len(s)) = s

\* the first position from i on where h holds the character c, 0 if none
FirstIdx(h, i, c) ==
    LET S == {j \in i..Len(h) : h[j] = c}
    IN IF S = {} THEN 0 ELSE CHOOSE j \in S : \A l \in S : j <= l

RECURSIVE StripFrom(_, _)
\* h from position i on, with every tag "<...>" removed
StripFrom(h, i) ==
    LET lt == FirstIdx(h, i, "<")
        gt == FirstIdx(h, lt, ">")
    IN IF lt = 0 THEN SubSeq(h, i, Len(h))
       ELSE SubSeq(h, i, lt - 1) \o (IF gt = 0 THEN <<>> ELSE StripFrom(h, gt + 1))

StripTags(h) == StripFrom(h, 1)

RECURSIVE NestFrom(_, _, _)
\* from position i on, at depth d: no anchor opens inside an open anchor,
\* each close ends an open anchor, and none is left open
NestFrom(h, i, d) ==
    LET lt == FirstIdx(h, i, "<")
    IN IF lt = 0 THEN d = 0
       ELSE IF lt < Len(h) /\ h[lt + 1] = "/"
            THEN d = 1 /\ NestFrom(h, lt + 1, 0)
            ELSE d = 0 /\ NestFrom(h, lt + 1, 1)

NoNestedAnchor(h) == NestFrom(h, 1, 0)

\* C1 (as claimed): of occurrences of titles that start at the same position
\* or share a character, the occurrence of the longest title is linked, and
\* no occurrence of a shorter title that shares a character with it is.
C1_LongestOfOverlapping ==
    Linked =>
        \A o \in Occ :
            ( /\ \E o2 \in Occ : Conflict(o, o2)
              /\ \A o2 \in Occ : Conflict(o, o2) => Len(o2[2]) < Len(o[2]) )
            => /\ LinkedAt(o[1], o[2])
               /\ \A o2 \in Occ :
                      (o2 # o /\ Share(o, o2)) => ~LinkedAt(o2[1], o2[2])

\* C1 (amended): at every position where the scan stands and a title occurs,
\* the occurrence of the longest title occurring there is linked; an
\* occurrence that starts strictly inside a linked span is not linked,
\* whatever its length.
C1_LeftmostLongest ==
    Linked =>
        /\ \A q \in Positions :
               (ScanAt(q) /\ OccAt(q) # {}) => LinkedAt(q, Longest(OccAt(q)))
        /\ \A o \in Occ :
               LinkedAt(o[1], o[2]) =>
                   /\ ScanAt(o[1])
                   /\ o[2] = Longest(OccAt(o[1]))

\* two non-empty titles of different length occur at a position where the
\* scan stands, and the longer one is linked
C1_Witness ==
    /\ Linked
    /\ \E q \in Positions :
           /\ ScanAt(q)
           /\ Cardinality(OccAt(q)) >= 2
           /\ <<>> \notin OccAt(q)
           /\ LinkedAt(q, Longest(OccAt(q)))

C3_NoNestedAnchors ==
    Linked =>
        /\ NoNestedAnchor(html)
        /\ \A i \in DOMAIN spans : \A j \in DOMAIN spans :
               i < j => spans[i].end <= spans[j].start
        /\ \A i \in DOMAIN spans : spans[i].start <= spans[i].end

\* a title occurs inside an occurrence of another title that is linked
C3_Witness ==
    /\ Linked
    /\ \E o \in Occ : \E o2 \in Occ :
           /\ LinkedAt(o[1], o[2])
           /\ o[1] < o2[1] /\ o2[1] + Len(o2[2]) <= o[1] + Len(o[2])
           /\ o2[2] # <<>>

\* C4: the output with its anchor tags removed is escape(text).
C4_RoundTrip == Linked => StripTags(html) = escape(text)

\* a character that needs escaping lies inside a linked span and another outside
C4_Witness ==
    /\ Linked
    /\ \E i \in DOMAIN spans : \E p \in Positions :
           /\ spans[i].start <= p /\ p < spans[i].end /\ text[p + 1] = "<"
    /\ \E p \in 1..Len(text) : text[p] = "<" /\ ScanAt(p - 1) /\ OccAt(p - 1) = {}

NoEmptyTitle == <<>> \notin DOMAIN title_to_url

\* the end of the match before the i-th one, 0 for the first
PrevEnd(i) == IF i = 1 THEN 0 ELSE spans[i - 1].end

\* C5: with no empty title, the linked spans are non-empty, disjoint and in
\* left-to-right order, each is a title wrapped in the anchor to its URL, the
\* text before, between and after them is emitted escaped, and none of these
\* unlinked stretches holds a complete occurrence of a title.
C5_DisjointSpans ==
    (Linked /\ NoEmptyTitle /\ DOMAIN title_to_url # {}) =>
        LET n == Len(spans) IN
        /\ Len(out) = 2 * n + 1
        /\ html = Join(out)
        /\ \A i \in 1..n :
               /\ PrevEnd(i) <= spans[i].start
               /\ spans[i].start < spans[i].end
               /\ spans[i].end <= Len(text)
               /\ Slice(text, spans[i].start, spans[i].end) \in DOMAIN title_to_url
               /\ out[2 * i] = Anchor(Slice(text, spans[i].start, spans[i].end))
               /\ out[2 * i - 1] = escape(Slice(text, PrevEnd(i), spans[i].start))
               /\ \A o \in Occ : ~(PrevEnd(i) <= o[1] /\ o[1] + Len(o[2]) <= spans[i].start)
        /\ out[2 * n + 1] = escape(Slice(text, PrevEnd(n + 1), Len(text)))
        /\ \A o \in Occ : ~(PrevEnd(n + 1) <= o[1])

\* two spans are linked with unlinked text between them
C5_Witness ==
    /\ Linked
    /\ NoEmptyTitle
    /\ Len(spans) >= 2
    /\ spans[1].end < spans[2].start

\* C6 (as claimed): when the text is a title of the registry, the output is
\* the one anchor around it and nothing else.
C6_ExactTitle ==
    (Linked /\ text \in DOMAIN title_to_url) => html = Anchor(text)

\* C7: with an empty registry the output is escape(text), with no tag in it.
C7_EmptyRegistry ==
    (Linked /\ DOMAIN title_to_url = {}) =>
        /\ html = escape(text)
        /\ \A i \in 1..Len(html) : html[i] \notin {"<", ">"}

\* the registry is empty and the text has a character to escape
C7_Witness ==
    /\ Linked
    /\ DOMAIN title_to_url = {}
    /\ \E i \in 1..Len(text) : text[i] = "<"

\* C8 (as claimed): the registry handed to linkify holds no empty title, and
\* no emitted anchor has empty visible text.
C8_EmptyTitleFiltered ==
    /\ pc \in {"registry", "linked"} => NoEmptyTitle
    /\ Linked =>
           \A i \in DOMAIN spans :
               (2 * i <= Len(out) /\ out[2 * i] # <<>> /\ out[2 * i][1] = "<")
                   => spans[i].start < spans[i].end

====
